---------------------------- MODULE Spec2Model ----------------------------
(***************************************************************************)
(* Model of the dextoken contract (src/dextoken.cpp): a fungible-token     *)
(* ledger made of a supply table (stats) and a balance table (accounts).   *)
(*                                                                         *)
(* Every public action of the contract is one step of the model.  A call   *)
(* is evaluated by threading a call context                                *)
(*     [stats, accts, err, writes, undo, log]                              *)
(* through the statements of the handler, in source order: err is the      *)
(* message of the eosio_assert that aborted the call ("" while running),   *)
(* writes counts the table writes (emplace / modify / erase) performed so  *)
(* far, undo holds the tables as they were when the call started, log the  *)
(* tables as they were right after each write, in order.  A                *)
(* failing eosio_assert stops the call and unwinds its pending changes     *)
(* (Abort): the host runs each call as a transaction.  Amounts are         *)
(* integers in units of the smallest fraction of the symbol (1.0000 with   *)
(* precision 4 is 10000).                                                  *)
(***************************************************************************)
EXTENDS Integers, FiniteSets, Sequences, TLC

VARIABLES stats,   \* supply table: symbol code -> currency_stats row
          accts,   \* balance table: <<owner, symbol code>> -> account row
          last,    \* the last committed action: name and arguments
          calls    \* committed actions of a scripted run (stays 0 otherwise)

vars == <<stats, accts, last, calls>>

---------------------------------------------------------------------------
(* Bounds of the model and constants of the program.                       *)

\* largest maximum_supply.amount a create call of the small universe offers
MaxSupply == 2
\* memo.size() <= 256
MaxMemo == 256
\* eosio::asset::max_amount.  The library's value is 2^62 - 1; TLC's integers
\* have 32 bits, so the model keeps the range check of asset::is_valid() with
\* a smaller limit that every amount of the universes but OutOfRange respects.
max_amount == 2^30 - 1
OutOfRange == max_amount + 1

\* accounts that exist on the chain; N_self is the contract's own account
Accounts == {"dex", "alice", "bob"}
N_self == "dex"
\* account names a caller can write, one of them of no existing account
Names == Accounts \cup {"ghost"}

---------------------------------------------------------------------------
(* Symbols and assets.                                                     *)

symbol(c, p) == [code |-> c, precision |-> p]
asset(a, sym) == [amount |-> a, symbol |-> sym]

\* symbol_type::is_valid(): a non-empty code of upper-case letters
symbol_is_valid(sym) == sym.code \in {"TOK", "ABC"}
\* symbol_type::name(): the code without the precision
symbol_name(sym) == sym.code
\* asset::is_valid()
asset_is_valid(q) ==
    /\ -max_amount <= q.amount
    /\ q.amount <= max_amount
    /\ symbol_is_valid(q.symbol)

\* is_account( name )
is_account(a) == a \in Accounts
\* require_auth( name ): the call carries the authority of account auth
has_auth(auth, a) == auth = a

---------------------------------------------------------------------------
(* The call context and the table primitives (eosio::multi_index).         *)

\* the context of a call that starts on the tables st, ac
Start(st, ac) ==
    [stats |-> st, accts |-> ac, err |-> "", writes |-> 0,
     undo |-> [stats |-> st, accts |-> ac], log |-> << >>]

\* a write: the tables become st, ac
Written(s, st, ac) ==
    [s EXCEPT !.stats = st, !.accts = ac, !.writes = @ + 1,
              !.log = Append(@, [stats |-> st, accts |-> ac])]

\* the context a call starts in: the tables as persisted, nothing written
Begin == Start(stats, accts)

\* mutant: an assertion that stops the call and leaves its writes behind
Abort_keep(s, msg) == [s EXCEPT !.err = msg]

\* eosio_assert( false, msg ), also inside multi_index::get: the call stops
\* here with msg and its pending changes are unwound, the tables are those
\* of its start again; writes keeps the number of writes done before
Abort(s, msg) ==
    [s EXCEPT !.stats = s.undo.stats, !.accts = s.undo.accts, !.err = msg]

\* statstable.emplace / statstable.modify: row key becomes row
stats_put(s, key, row) ==
    Written(s, [k \in DOMAIN s.stats \cup {key} |->
                   IF k = key THEN row ELSE s.stats[k]],
            s.accts)

\* acnts.emplace / acnts.modify in the scope of owner
accts_put(s, owner, key, row) ==
    Written(s, s.stats,
            [k \in DOMAIN s.accts \cup {<<owner, key>>} |->
                IF k = <<owner, key>> THEN row ELSE s.accts[k]])

\* acnts.erase in the scope of owner
accts_erase(s, owner, key) ==
    Written(s, s.stats,
            [k \in DOMAIN s.accts \ {<<owner, key>>} |-> s.accts[k]])

---------------------------------------------------------------------------
(* The shared debit and credit helpers.                                    *)

\* mutant: the debit keeps the row when the balance reaches zero
sub_balance_noerase(s, owner, value) ==
    LET key == <<owner, symbol_name(value.symbol)>> IN
    IF key \notin DOMAIN s.accts
    THEN Abort(s, "no balance object found")
    ELSE LET from == s.accts[key] IN
         IF ~(from.balance.amount >= value.amount)
         THEN Abort(s, "overdrawn balance")
         ELSE IF from.balance.symbol # value.symbol
         THEN Abort(s, "attempt to subtract asset with different symbol")
         ELSE accts_put(s, owner, key[2],
                  [balance |-> asset(from.balance.amount - value.amount,
                                     from.balance.symbol)])

\* mutant: the debit without the overdrawn check
sub_balance_unchecked(s, owner, value) ==
    LET key == <<owner, symbol_name(value.symbol)>> IN
    IF key \notin DOMAIN s.accts
    THEN Abort(s, "no balance object found")
    ELSE LET from == s.accts[key] IN
         IF from.balance.amount = value.amount
         THEN accts_erase(s, owner, key[2])
         ELSE accts_put(s, owner, key[2],
                  [balance |-> asset(from.balance.amount - value.amount,
                                     from.balance.symbol)])

sub_balance(s, owner, value) ==
    LET key == <<owner, symbol_name(value.symbol)>> IN
    IF key \notin DOMAIN s.accts
    THEN Abort(s, "no balance object found")
    ELSE LET from == s.accts[key] IN
         IF ~(from.balance.amount >= value.amount)
         THEN Abort(s, "overdrawn balance")
         ELSE IF from.balance.amount = value.amount
         THEN accts_erase(s, owner, key[2])
         ELSE IF from.balance.symbol # value.symbol
         THEN Abort(s, "attempt to subtract asset with different symbol")
         ELSE accts_put(s, owner, key[2],
                  [balance |-> asset(from.balance.amount - value.amount,
                                     from.balance.symbol)])

\* the value of pay_ram when add_balance is called with three arguments
\* (the default argument of the declaration in dextoken.hpp)
default_pay_ram == TRUE

\* mutant: the credit creates a missing row whatever pay_ram says
add_balance_always(s, owner, value, ram_payer, pay_ram) ==
    LET key == <<owner, symbol_name(value.symbol)>> IN
    IF key \notin DOMAIN s.accts
    THEN accts_put(s, owner, key[2], [balance |-> value])
    ELSE LET to == s.accts[key] IN
         IF to.balance.symbol # value.symbol
         THEN Abort(s, "attempt to add asset with different symbol")
         ELSE accts_put(s, owner, key[2],
                  [balance |-> asset(to.balance.amount + value.amount,
                                     to.balance.symbol)])

\* mutant: the credit overwrites the balance of an existing row
add_balance_overwrite(s, owner, value, ram_payer, pay_ram) ==
    LET key == <<owner, symbol_name(value.symbol)>> IN
    IF key \notin DOMAIN s.accts
    THEN IF ~(pay_ram = TRUE)
         THEN Abort(s, "destination account does not have balance")
         ELSE accts_put(s, owner, key[2], [balance |-> value])
    ELSE accts_put(s, owner, key[2], [balance |-> value])

add_balance(s, owner, value, ram_payer, pay_ram) ==
    LET key == <<owner, symbol_name(value.symbol)>> IN
    IF key \notin DOMAIN s.accts
    THEN IF ~(pay_ram = TRUE)
         THEN Abort(s, "destination account does not have balance")
         ELSE accts_put(s, owner, key[2], [balance |-> value])
    ELSE LET to == s.accts[key] IN
         IF to.balance.symbol # value.symbol
         THEN Abort(s, "attempt to add asset with different symbol")
         ELSE accts_put(s, owner, key[2],
                  [balance |-> asset(to.balance.amount + value.amount,
                                     to.balance.symbol)])

---------------------------------------------------------------------------
(* The handlers.  auth is the account whose authority the call carries.    *)

\* mutant: a registered symbol code is not refused, its row is replaced
create_overwrite(s, auth, issuer, maximum_supply) ==
    LET sym == maximum_supply.symbol IN
    IF ~has_auth(auth, N_self) THEN Abort(s, "missing authority")
    ELSE IF ~symbol_is_valid(sym) THEN Abort(s, "invalid symbol name")
    ELSE IF ~asset_is_valid(maximum_supply) THEN Abort(s, "invalid supply")
    ELSE IF ~(maximum_supply.amount > 0) THEN Abort(s, "max-supply must be positive")
    ELSE stats_put(s, symbol_name(sym),
             [supply     |-> asset(0, maximum_supply.symbol),
              max_supply |-> maximum_supply,
              issuer     |-> issuer])

create(s, auth, issuer, maximum_supply) ==
    LET sym == maximum_supply.symbol IN
    IF ~has_auth(auth, N_self) THEN Abort(s, "missing authority")
    ELSE IF ~symbol_is_valid(sym) THEN Abort(s, "invalid symbol name")
    ELSE IF ~asset_is_valid(maximum_supply) THEN Abort(s, "invalid supply")
    ELSE IF ~(maximum_supply.amount > 0) THEN Abort(s, "max-supply must be positive")
    ELSE IF symbol_name(sym) \in DOMAIN s.stats
    THEN Abort(s, "token with symbol already exists")
    ELSE stats_put(s, symbol_name(sym),
             [supply     |-> asset(0, maximum_supply.symbol),
              max_supply |-> maximum_supply,
              issuer     |-> issuer])

\* mutant: the destination is credited before the source is debited
do_transfer_creditfirst(s, auth, from, to, quantity, memo, pay_ram) ==
    LET sym == symbol_name(quantity.symbol) IN
    IF ~(from # to) THEN Abort(s, "cannot transfer to self")
    ELSE IF ~has_auth(auth, from) THEN Abort(s, "missing authority")
    ELSE IF ~is_account(to) THEN Abort(s, "to account does not exist")
    ELSE IF sym \notin DOMAIN s.stats THEN Abort(s, "unable to find key")
    ELSE LET st == s.stats[sym] IN
         IF ~asset_is_valid(quantity) THEN Abort(s, "invalid quantity")
         ELSE IF ~(quantity.amount > 0) THEN Abort(s, "must transfer positive quantity")
         ELSE IF ~(quantity.symbol = st.supply.symbol)
         THEN Abort(s, "symbol precision mismatch")
         ELSE IF ~(memo <= MaxMemo) THEN Abort(s, "memo has more than 256 bytes")
         ELSE LET s1 == add_balance(s, to, quantity, from, pay_ram) IN
              IF s1.err # "" THEN s1
              ELSE sub_balance(s1, from, quantity)

\* mutant: a transfer to the sender itself is not refused
do_transfer_selfok(s, auth, from, to, quantity, memo, pay_ram) ==
    LET sym == symbol_name(quantity.symbol) IN
    IF ~has_auth(auth, from) THEN Abort(s, "missing authority")
    ELSE IF ~is_account(to) THEN Abort(s, "to account does not exist")
    ELSE IF sym \notin DOMAIN s.stats THEN Abort(s, "unable to find key")
    ELSE LET st == s.stats[sym] IN
         IF ~asset_is_valid(quantity) THEN Abort(s, "invalid quantity")
         ELSE IF ~(quantity.amount > 0) THEN Abort(s, "must transfer positive quantity")
         ELSE IF ~(quantity.symbol = st.supply.symbol)
         THEN Abort(s, "symbol precision mismatch")
         ELSE IF ~(memo <= MaxMemo) THEN Abort(s, "memo has more than 256 bytes")
         ELSE LET s1 == sub_balance(s, from, quantity) IN
              IF s1.err # "" THEN s1
              ELSE add_balance(s1, to, quantity, from, pay_ram)

do_transfer(s, auth, from, to, quantity, memo, pay_ram) ==
    LET sym == symbol_name(quantity.symbol) IN
    IF ~(from # to) THEN Abort(s, "cannot transfer to self")
    ELSE IF ~has_auth(auth, from) THEN Abort(s, "missing authority")
    ELSE IF ~is_account(to) THEN Abort(s, "to account does not exist")
    ELSE IF sym \notin DOMAIN s.stats THEN Abort(s, "unable to find key")
    ELSE LET st == s.stats[sym] IN
         IF ~asset_is_valid(quantity) THEN Abort(s, "invalid quantity")
         ELSE IF ~(quantity.amount > 0) THEN Abort(s, "must transfer positive quantity")
         ELSE IF ~(quantity.symbol = st.supply.symbol)
         THEN Abort(s, "symbol precision mismatch")
         ELSE IF ~(memo <= MaxMemo) THEN Abort(s, "memo has more than 256 bytes")
         ELSE LET s1 == sub_balance(s, from, quantity) IN
              IF s1.err # "" THEN s1
              ELSE add_balance(s1, to, quantity, from, pay_ram)

\* mutant: the supply check forgets the supply already issued
do_issue_nocurrent(s, auth, to, quantity, memo, pay_ram) ==
    LET sym == quantity.symbol
        sym_name == symbol_name(sym)
    IN
    IF ~symbol_is_valid(sym) THEN Abort(s, "invalid symbol name")
    ELSE IF ~(memo <= MaxMemo) THEN Abort(s, "memo has more than 256 bytes")
    ELSE IF sym_name \notin DOMAIN s.stats
    THEN Abort(s, "token with symbol does not exist, create token before issue")
    ELSE LET st == s.stats[sym_name] IN
         IF ~has_auth(auth, st.issuer) THEN Abort(s, "missing authority")
         ELSE IF ~asset_is_valid(quantity) THEN Abort(s, "invalid quantity")
         ELSE IF ~(quantity.amount >= 0)
         THEN Abort(s, "must issue positive quantity or zero")
         ELSE IF ~(quantity.symbol = st.supply.symbol)
         THEN Abort(s, "symbol precision mismatch")
         ELSE IF ~(quantity.amount <= st.max_supply.amount)
         THEN Abort(s, "quantity exceeds available supply")
         ELSE LET s1 == stats_put(s, sym_name,
                            [st EXCEPT !.supply.amount = @ + quantity.amount])
                  s2 == add_balance(s1, st.issuer, quantity, st.issuer,
                                    default_pay_ram)
              IN
              IF s2.err # "" THEN s2
              ELSE IF to # st.issuer
              \* SEND_INLINE_ACTION: transfer / transferfree run in the same
              \* transaction, with the issuer's authority
              THEN do_transfer(s2, st.issuer, st.issuer, to, quantity, memo, pay_ram)
              ELSE s2

\* mutant: the supply check is strict
do_issue_strict(s, auth, to, quantity, memo, pay_ram) ==
    LET sym == quantity.symbol
        sym_name == symbol_name(sym)
    IN
    IF ~symbol_is_valid(sym) THEN Abort(s, "invalid symbol name")
    ELSE IF ~(memo <= MaxMemo) THEN Abort(s, "memo has more than 256 bytes")
    ELSE IF sym_name \notin DOMAIN s.stats
    THEN Abort(s, "token with symbol does not exist, create token before issue")
    ELSE LET st == s.stats[sym_name] IN
         IF ~has_auth(auth, st.issuer) THEN Abort(s, "missing authority")
         ELSE IF ~asset_is_valid(quantity) THEN Abort(s, "invalid quantity")
         ELSE IF ~(quantity.amount >= 0)
         THEN Abort(s, "must issue positive quantity or zero")
         ELSE IF ~(quantity.symbol = st.supply.symbol)
         THEN Abort(s, "symbol precision mismatch")
         ELSE IF ~(quantity.amount < st.max_supply.amount - st.supply.amount)
         THEN Abort(s, "quantity exceeds available supply")
         ELSE LET s1 == stats_put(s, sym_name,
                            [st EXCEPT !.supply.amount = @ + quantity.amount])
                  s2 == add_balance(s1, st.issuer, quantity, st.issuer,
                                    default_pay_ram)
              IN
              IF s2.err # "" THEN s2
              ELSE IF to # st.issuer
              \* SEND_INLINE_ACTION: transfer / transferfree run in the same
              \* transaction, with the issuer's authority
              THEN do_transfer(s2, st.issuer, st.issuer, to, quantity, memo, pay_ram)
              ELSE s2

\* mutant: the quantity is moved to the destination without the checks of
\* transfer
do_issue_direct(s, auth, to, quantity, memo, pay_ram) ==
    LET sym == quantity.symbol
        sym_name == symbol_name(sym)
    IN
    IF ~symbol_is_valid(sym) THEN Abort(s, "invalid symbol name")
    ELSE IF ~(memo <= MaxMemo) THEN Abort(s, "memo has more than 256 bytes")
    ELSE IF sym_name \notin DOMAIN s.stats
    THEN Abort(s, "token with symbol does not exist, create token before issue")
    ELSE LET st == s.stats[sym_name] IN
         IF ~has_auth(auth, st.issuer) THEN Abort(s, "missing authority")
         ELSE IF ~asset_is_valid(quantity) THEN Abort(s, "invalid quantity")
         ELSE IF ~(quantity.amount >= 0)
         THEN Abort(s, "must issue positive quantity or zero")
         ELSE IF ~(quantity.symbol = st.supply.symbol)
         THEN Abort(s, "symbol precision mismatch")
         ELSE IF ~(quantity.amount <= st.max_supply.amount - st.supply.amount)
         THEN Abort(s, "quantity exceeds available supply")
         ELSE LET s1 == stats_put(s, sym_name,
                            [st EXCEPT !.supply.amount = @ + quantity.amount])
                  s2 == add_balance(s1, st.issuer, quantity, st.issuer,
                                    default_pay_ram)
                  s3 == sub_balance(s2, st.issuer, quantity)
              IN
              IF s2.err # "" THEN s2
              ELSE IF to # st.issuer
              THEN IF s3.err # "" THEN s3
                   ELSE add_balance(s3, to, quantity, st.issuer, TRUE)
              ELSE s2

\* mutant: the quantity is credited to the destination and never passes
\* through the row of the issuer
do_issue_straight(s, auth, to, quantity, memo, pay_ram) ==
    LET sym == quantity.symbol
        sym_name == symbol_name(sym)
    IN
    IF ~symbol_is_valid(sym) THEN Abort(s, "invalid symbol name")
    ELSE IF ~(memo <= MaxMemo) THEN Abort(s, "memo has more than 256 bytes")
    ELSE IF sym_name \notin DOMAIN s.stats
    THEN Abort(s, "token with symbol does not exist, create token before issue")
    ELSE LET st == s.stats[sym_name] IN
         IF ~has_auth(auth, st.issuer) THEN Abort(s, "missing authority")
         ELSE IF ~asset_is_valid(quantity) THEN Abort(s, "invalid quantity")
         ELSE IF ~(quantity.amount >= 0)
         THEN Abort(s, "must issue positive quantity or zero")
         ELSE IF ~(quantity.symbol = st.supply.symbol)
         THEN Abort(s, "symbol precision mismatch")
         ELSE IF ~(quantity.amount <= st.max_supply.amount - st.supply.amount)
         THEN Abort(s, "quantity exceeds available supply")
         ELSE LET s1 == stats_put(s, sym_name,
                            [st EXCEPT !.supply.amount = @ + quantity.amount])
              IN
              IF to # st.issuer
              THEN IF ~is_account(to) THEN Abort(s1, "to account does not exist")
                   ELSE IF ~(quantity.amount > 0)
                   THEN Abort(s1, "must transfer positive quantity")
                   ELSE add_balance(s1, to, quantity, st.issuer, pay_ram)
              ELSE add_balance(s1, st.issuer, quantity, st.issuer, default_pay_ram)

do_issue(s, auth, to, quantity, memo, pay_ram) ==
    LET sym == quantity.symbol
        sym_name == symbol_name(sym)
    IN
    IF ~symbol_is_valid(sym) THEN Abort(s, "invalid symbol name")
    ELSE IF ~(memo <= MaxMemo) THEN Abort(s, "memo has more than 256 bytes")
    ELSE IF sym_name \notin DOMAIN s.stats
    THEN Abort(s, "token with symbol does not exist, create token before issue")
    ELSE LET st == s.stats[sym_name] IN
         IF ~has_auth(auth, st.issuer) THEN Abort(s, "missing authority")
         ELSE IF ~asset_is_valid(quantity) THEN Abort(s, "invalid quantity")
         ELSE IF ~(quantity.amount >= 0)
         THEN Abort(s, "must issue positive quantity or zero")
         ELSE IF ~(quantity.symbol = st.supply.symbol)
         THEN Abort(s, "symbol precision mismatch")
         ELSE IF ~(quantity.amount <= st.max_supply.amount - st.supply.amount)
         THEN Abort(s, "quantity exceeds available supply")
         ELSE LET s1 == stats_put(s, sym_name,
                            [st EXCEPT !.supply.amount = @ + quantity.amount])
                  s2 == add_balance(s1, st.issuer, quantity, st.issuer,
                                    default_pay_ram)
              IN
              IF s2.err # "" THEN s2
              ELSE IF to # st.issuer
              \* SEND_INLINE_ACTION: transfer / transferfree run in the same
              \* transaction, with the issuer's authority
              THEN do_transfer(s2, st.issuer, st.issuer, to, quantity, memo, pay_ram)
              ELSE s2

\* mutant: the supply row is left as it is, only the balance is debited
burn_keepsupply(s, auth, from, quantity, memo) ==
    LET sym == quantity.symbol
        sym_name == symbol_name(sym)
    IN
    IF ~symbol_is_valid(sym) THEN Abort(s, "invalid symbol name")
    ELSE IF ~(memo <= MaxMemo) THEN Abort(s, "memo has more than 256 bytes")
    ELSE IF sym_name \notin DOMAIN s.stats
    THEN Abort(s, "token with symbol does not exist, create token before burn")
    ELSE LET st == s.stats[sym_name] IN
         IF ~has_auth(auth, from) THEN Abort(s, "missing authority")
         ELSE IF ~asset_is_valid(quantity) THEN Abort(s, "invalid quantity")
         ELSE IF ~(quantity.amount >= 0)
         THEN Abort(s, "must burn positive or zero quantity")
         ELSE IF ~(quantity.symbol = st.supply.symbol)
         THEN Abort(s, "symbol precision mismatch")
         ELSE IF ~(quantity.amount <= st.supply.amount)
         THEN Abort(s, "quantity exceeds available supply")
         ELSE sub_balance(s, from, quantity)

\* mutant: the balance is debited before the supply row is written
burn_debitfirst(s, auth, from, quantity, memo) ==
    LET sym == quantity.symbol
        sym_name == symbol_name(sym)
    IN
    IF ~symbol_is_valid(sym) THEN Abort(s, "invalid symbol name")
    ELSE IF ~(memo <= MaxMemo) THEN Abort(s, "memo has more than 256 bytes")
    ELSE IF sym_name \notin DOMAIN s.stats
    THEN Abort(s, "token with symbol does not exist, create token before burn")
    ELSE LET st == s.stats[sym_name] IN
         IF ~has_auth(auth, from) THEN Abort(s, "missing authority")
         ELSE IF ~asset_is_valid(quantity) THEN Abort(s, "invalid quantity")
         ELSE IF ~(quantity.amount >= 0)
         THEN Abort(s, "must burn positive or zero quantity")
         ELSE IF ~(quantity.symbol = st.supply.symbol)
         THEN Abort(s, "symbol precision mismatch")
         ELSE IF ~(quantity.amount <= st.supply.amount)
         THEN Abort(s, "quantity exceeds available supply")
         ELSE LET s1 == sub_balance(s, from, quantity) IN
              IF s1.err # "" THEN s1
              ELSE stats_put(s1, sym_name,
                       [st EXCEPT !.supply.amount = @ - quantity.amount])

\* mutant: the quantity is not held against the supply
burn_unbounded(s, auth, from, quantity, memo) ==
    LET sym == quantity.symbol
        sym_name == symbol_name(sym)
    IN
    IF ~symbol_is_valid(sym) THEN Abort(s, "invalid symbol name")
    ELSE IF ~(memo <= MaxMemo) THEN Abort(s, "memo has more than 256 bytes")
    ELSE IF sym_name \notin DOMAIN s.stats
    THEN Abort(s, "token with symbol does not exist, create token before burn")
    ELSE LET st == s.stats[sym_name] IN
         IF ~has_auth(auth, from) THEN Abort(s, "missing authority")
         ELSE IF ~asset_is_valid(quantity) THEN Abort(s, "invalid quantity")
         ELSE IF ~(quantity.amount >= 0)
         THEN Abort(s, "must burn positive or zero quantity")
         ELSE IF ~(quantity.symbol = st.supply.symbol)
         THEN Abort(s, "symbol precision mismatch")
         ELSE LET s1 == stats_put(s, sym_name,
                            [st EXCEPT !.supply.amount = @ - quantity.amount])
              IN sub_balance(s1, from, quantity)

burn(s, auth, from, quantity, memo) ==
    LET sym == quantity.symbol
        sym_name == symbol_name(sym)
    IN
    IF ~symbol_is_valid(sym) THEN Abort(s, "invalid symbol name")
    ELSE IF ~(memo <= MaxMemo) THEN Abort(s, "memo has more than 256 bytes")
    ELSE IF sym_name \notin DOMAIN s.stats
    THEN Abort(s, "token with symbol does not exist, create token before burn")
    ELSE LET st == s.stats[sym_name] IN
         IF ~has_auth(auth, from) THEN Abort(s, "missing authority")
         ELSE IF ~asset_is_valid(quantity) THEN Abort(s, "invalid quantity")
         ELSE IF ~(quantity.amount >= 0)
         THEN Abort(s, "must burn positive or zero quantity")
         ELSE IF ~(quantity.symbol = st.supply.symbol)
         THEN Abort(s, "symbol precision mismatch")
         ELSE IF ~(quantity.amount <= st.supply.amount)
         THEN Abort(s, "quantity exceeds available supply")
         ELSE LET s1 == stats_put(s, sym_name,
                            [st EXCEPT !.supply.amount = @ - quantity.amount])
              IN sub_balance(s1, from, quantity)

\* mutant: the duplicate check comes after the supply row is written
signup_late(s, auth, owner, quantity) ==
    LET sym == quantity.symbol
        sym_name == symbol_name(sym)
    IN
    IF ~symbol_is_valid(sym) THEN Abort(s, "invalid symbol name")
    ELSE IF sym_name \notin DOMAIN s.stats
    THEN Abort(s, "token with symbol does not exist, create token before signup")
    ELSE LET st == s.stats[sym_name] IN
         IF ~has_auth(auth, owner) THEN Abort(s, "missing authority")
         ELSE IF ~asset_is_valid(quantity) THEN Abort(s, "invalid quantity")
         ELSE IF ~(quantity.amount = 0)
         THEN Abort(s, "quantity exceeds signup allowance")
         ELSE IF ~(quantity.symbol = st.supply.symbol)
         THEN Abort(s, "symbol precision mismatch")
         ELSE IF ~(quantity.amount <= st.max_supply.amount - st.supply.amount)
         THEN Abort(s, "quantity exceeds available supply")
         ELSE LET s1 == stats_put(s, sym_name,
                            [st EXCEPT !.supply.amount = @ + quantity.amount])
              IN IF <<owner, sym_name>> \in DOMAIN s1.accts
                 THEN Abort(s1, "you have already signed up")
                 ELSE add_balance(s1, owner, quantity, owner, default_pay_ram)

\* mutant: the quantity of a signup is not held to zero
signup_funded(s, auth, owner, quantity) ==
    LET sym == quantity.symbol
        sym_name == symbol_name(sym)
    IN
    IF ~symbol_is_valid(sym) THEN Abort(s, "invalid symbol name")
    ELSE IF sym_name \notin DOMAIN s.stats
    THEN Abort(s, "token with symbol does not exist, create token before signup")
    ELSE LET st == s.stats[sym_name] IN
         IF ~has_auth(auth, owner) THEN Abort(s, "missing authority")
         ELSE IF <<owner, sym_name>> \in DOMAIN s.accts
         THEN Abort(s, "you have already signed up")
         ELSE IF ~asset_is_valid(quantity) THEN Abort(s, "invalid quantity")
         ELSE IF ~(quantity.symbol = st.supply.symbol)
         THEN Abort(s, "symbol precision mismatch")
         ELSE IF ~(quantity.amount <= st.max_supply.amount - st.supply.amount)
         THEN Abort(s, "quantity exceeds available supply")
         ELSE LET s1 == stats_put(s, sym_name,
                            [st EXCEPT !.supply.amount = @ + quantity.amount])
              IN add_balance(s1, owner, quantity, owner, default_pay_ram)

signup(s, auth, owner, quantity) ==
    LET sym == quantity.symbol
        sym_name == symbol_name(sym)
    IN
    IF ~symbol_is_valid(sym) THEN Abort(s, "invalid symbol name")
    ELSE IF sym_name \notin DOMAIN s.stats
    THEN Abort(s, "token with symbol does not exist, create token before signup")
    ELSE LET st == s.stats[sym_name] IN
         IF ~has_auth(auth, owner) THEN Abort(s, "missing authority")
         ELSE IF <<owner, sym_name>> \in DOMAIN s.accts
         THEN Abort(s, "you have already signed up")
         ELSE IF ~asset_is_valid(quantity) THEN Abort(s, "invalid quantity")
         ELSE IF ~(quantity.amount = 0)
         THEN Abort(s, "quantity exceeds signup allowance")
         ELSE IF ~(quantity.symbol = st.supply.symbol)
         THEN Abort(s, "symbol precision mismatch")
         ELSE IF ~(quantity.amount <= st.max_supply.amount - st.supply.amount)
         THEN Abort(s, "quantity exceeds available supply")
         ELSE LET s1 == stats_put(s, sym_name,
                            [st EXCEPT !.supply.amount = @ + quantity.amount])
              IN add_balance(s1, owner, quantity, owner, default_pay_ram)

\* the public wrappers
issue(s, auth, to, quantity, memo) == do_issue(s, auth, to, quantity, memo, TRUE)
issuefree(s, auth, to, quantity, memo) == do_issue(s, auth, to, quantity, memo, FALSE)
transfer(s, auth, from, to, quantity, memo) ==
    do_transfer(s, auth, from, to, quantity, memo, TRUE)
transferfree(s, auth, from, to, quantity, memo) ==
    do_transfer(s, auth, from, to, quantity, memo, FALSE)

---------------------------------------------------------------------------
(* The host: every call is a transaction.                                  *)

\* the action record kept in last; create files its issuer under to,
\* signup its owner under from
Action(op, from, to, quantity) ==
    [op |-> op, from |-> from, to |-> to, quantity |-> quantity]

\* EOSIO_ABI dispatch: the outcome r of the call is what the tables hold
\* next.  A call stopped by eosio_assert leaves no trace: no action is
\* recorded for it.
apply(r, act, scripted) ==
    /\ stats' = r.stats
    /\ accts' = r.accts
    /\ last' = IF r.err = "" THEN act ELSE last
    /\ calls' = IF scripted /\ r.err = "" THEN calls + 1 ELSE calls

---------------------------------------------------------------------------
(* What callers may send: a universe is the set of arguments an            *)
(* environment draws from.                                                 *)

TOK4 == symbol("TOK", 4)
TOK2 == symbol("TOK", 2)
ABC4 == symbol("ABC", 4)
BadSym == symbol("tok", 4)
\* what a call carries besides its arguments: the account that authorized
\* it and the size of its memo (one call with a memo that is too long)
Envelopes == {<<a, 0>> : a \in Accounts} \cup {<<N_self, MaxMemo + 1>>}

\* small amounts of TOK with precision 4, one amount of the other
\* precision, and every malformed argument; offered at any time
Small ==
    [issuers   |-> {N_self, "alice"},
     owners    |-> Accounts,
     receivers |-> Names,
     maxes     |-> {asset(a, TOK4) : a \in 0..MaxSupply}
                   \cup {asset(1, TOK2), asset(1, BadSym), asset(OutOfRange, TOK4)},
     script    |-> << {asset(a, TOK4) : a \in (-1)..(MaxSupply + 1)}
                      \cup {asset(1, TOK2), asset(1, ABC4), asset(1, BadSym),
                            asset(OutOfRange, TOK4)} >>,
     scripted  |-> FALSE]

\* the scenarios of section 8 of the specification, played in order: TOK
\* with precision 4 (1000.0000 is 10000000), issuer alice (I), user bob (U).
\* Before its k-th committed action the environment offers the amounts of
\* the k-th step, to every action and every account:
\*   1 create, 2 issue 100.0000, 3 signup 0 (transfer of 40.0000 refused),
\*   4 transfer 40.0000, 5 burn 60.0000 (60.0001 refused),
\*   6 issue at the boundary: 960.0000, 960.0001, 961.0000
Scenario ==
    [issuers   |-> {"alice"},
     owners    |-> {"alice", "bob"},
     receivers |-> {"alice", "bob"},
     maxes     |-> {asset(10000000, TOK4)},
     script    |-> << {},
                      {asset(1000000, TOK4)},
                      {asset(0, TOK4), asset(400000, TOK4)},
                      {asset(400000, TOK4)},
                      {asset(600000, TOK4), asset(600001, TOK4)},
                      {asset(9600000, TOK4), asset(9600001, TOK4),
                       asset(9610000, TOK4)} >>,
     scripted  |-> TRUE]

\* the arguments on offer in the current state
Maxes(U) == IF U.scripted /\ calls # 0 THEN {} ELSE U.maxes
Quantities(U) ==
    IF ~U.scripted THEN U.script[1]
    ELSE IF calls < Len(U.script) THEN U.script[calls + 1]
    ELSE {}

---------------------------------------------------------------------------
(* The actions.                                                            *)

Create(U) ==
    \E auth \in Accounts, issuer \in U.issuers, maximum_supply \in Maxes(U) :
        apply(create(Begin, auth, issuer, maximum_supply),
              Action("create", "", issuer, maximum_supply), U.scripted)

Issue(U) ==
    \E env \in Envelopes, to \in U.receivers, quantity \in Quantities(U) :
        apply(issue(Begin, env[1], to, quantity, env[2]),
              Action("issue", "", to, quantity), U.scripted)

Issuefree(U) ==
    \E env \in Envelopes, to \in U.receivers, quantity \in Quantities(U) :
        apply(issuefree(Begin, env[1], to, quantity, env[2]),
              Action("issuefree", "", to, quantity), U.scripted)

Burn(U) ==
    \E env \in Envelopes, from \in U.owners, quantity \in Quantities(U) :
        apply(burn(Begin, env[1], from, quantity, env[2]),
              Action("burn", from, "", quantity), U.scripted)

Signup(U) ==
    \E auth \in Accounts, owner \in U.owners, quantity \in Quantities(U) :
        apply(signup(Begin, auth, owner, quantity),
              Action("signup", owner, "", quantity), U.scripted)

Transfer(U) ==
    \E env \in Envelopes, from \in U.owners, to \in U.receivers,
       quantity \in Quantities(U) :
        apply(transfer(Begin, env[1], from, to, quantity, env[2]),
              Action("transfer", from, to, quantity), U.scripted)

Transferfree(U) ==
    \E env \in Envelopes, from \in U.owners, to \in U.receivers,
       quantity \in Quantities(U) :
        apply(transferfree(Begin, env[1], from, to, quantity, env[2]),
              Action("transferfree", from, to, quantity), U.scripted)

Init ==
    /\ stats = [k \in {} |-> 0]
    /\ accts = [k \in {} |-> 0]
    /\ last = Action("none", "", "", asset(0, TOK4))
    /\ calls = 0

Step(U) ==
    \/ Create(U)
    \/ Issue(U)
    \/ Issuefree(U)
    \/ Burn(U)
    \/ Signup(U)
    \/ Transfer(U)
    \/ Transferfree(U)

Next == Step(Small)
Spec == Init /\ [][Next]_vars

ScenarioNext == Step(Scenario)
ScenarioSpec == Init /\ [][ScenarioNext]_vars

---------------------------------------------------------------------------
(* Vocabulary of the properties.                                           *)

\* the two tables as a pair
Tables(st, ac) == [stats |-> st, accts |-> ac]

\* the balance of owner in symbol code c, 0 when owner has no row
Balance(ac, owner, c) ==
    IF <<owner, c>> \in DOMAIN ac THEN ac[<<owner, c>>].balance.amount ELSE 0
HasRow(ac, owner, c) == <<owner, c>> \in DOMAIN ac

RECURSIVE SumBalances(_, _, _)
SumBalances(ac, owners, c) ==
    IF owners = {} THEN 0
    ELSE LET o == CHOOSE x \in owners : TRUE
         IN Balance(ac, o, c) + SumBalances(ac, owners \ {o}, c)

\* a call as data: the action name and everything the caller sends
Call(op, auth, from, to, quantity, memo) ==
    [op |-> op, auth |-> auth, from |-> from, to |-> to,
     quantity |-> quantity, memo |-> memo]

\* the calls a universe can send with the quantities qs
CallsOf(U, qs) ==
    {Call("create", a, "", i, q, 0) : a \in Accounts, i \in U.issuers, q \in U.maxes}
    \cup {Call(op, e[1], "", to, q, e[2]) :
              op \in {"issue", "issuefree"}, e \in Envelopes,
              to \in U.receivers, q \in qs}
    \cup {Call("burn", e[1], f, "", q, e[2]) :
              e \in Envelopes, f \in U.owners, q \in qs}
    \cup {Call("signup", a, f, "", q, 0) :
              a \in Accounts, f \in U.owners, q \in qs}
    \cup {Call(op, e[1], f, to, q, e[2]) :
              op \in {"transfer", "transferfree"}, e \in Envelopes,
              f \in U.owners, to \in U.receivers, q \in qs}

SmallCalls == CallsOf(Small, Small.script[1])

\* the outcome of call c started in context s
Run(s, c) ==
    CASE c.op = "create"       -> create(s, c.auth, c.to, c.quantity)
      [] c.op = "issue"        -> issue(s, c.auth, c.to, c.quantity, c.memo)
      [] c.op = "issuefree"    -> issuefree(s, c.auth, c.to, c.quantity, c.memo)
      [] c.op = "burn"         -> burn(s, c.auth, c.from, c.quantity, c.memo)
      [] c.op = "signup"       -> signup(s, c.auth, c.from, c.quantity)
      [] c.op = "transfer"     -> transfer(s, c.auth, c.from, c.to, c.quantity, c.memo)
      [] c.op = "transferfree" -> transferfree(s, c.auth, c.from, c.to, c.quantity, c.memo)

---------------------------------------------------------------------------
(* C1.  Conservation: for every registered symbol the balances of all      *)
(* accounts add up to the current supply, in every state reached by any    *)
(* sequence of calls (each a completed or an aborted transaction).         *)
Conservation ==
    \A c \in DOMAIN stats :
        SumBalances(accts, Accounts, c) = stats[c].supply.amount

\* value has moved between accounts and part of the supply has been burnt
ConservationWitness ==
    /\ last.op = "burn"
    /\ "TOK" \in DOMAIN stats
    /\ stats["TOK"].supply.amount > 0
    /\ Cardinality({o \in Accounts : Balance(accts, o, "TOK") > 0}) >= 2

(* C2.  Supply bounds: every registered symbol has                         *)
(* 0 <= current_supply <= max_supply and max_supply > 0.                   *)
SupplyBounds ==
    \A c \in DOMAIN stats :
        /\ 0 <= stats[c].supply.amount
        /\ stats[c].supply.amount <= stats[c].max_supply.amount
        /\ stats[c].max_supply.amount > 0

\* an issue has filled the supply up to the maximum
SupplyBoundsWitness ==
    /\ last.op \in {"issue", "issuefree"}
    /\ last.quantity.amount > 0
    /\ stats["TOK"].supply.amount = stats["TOK"].max_supply.amount

(* C3, as stated.  Every row of the balance table has a balance strictly   *)
(* greater than 0.                                                         *)
NoZeroBalanceRows ==
    \A k \in DOMAIN accts : accts[k].balance.amount > 0

(* C3, amended.  Every row of the balance table has a balance >= 0; a row  *)
(* with balance 0 is what signup leaves (and an issue of 0 that creates    *)
(* the issuer's row), and a debit that reaches 0 deletes the row.          *)
NonNegativeBalanceRows ==
    /\ \A k \in DOMAIN accts : accts[k].balance.amount >= 0
    /\ last.op = "signup" =>
           /\ HasRow(accts, last.from, symbol_name(last.quantity.symbol))
           /\ Balance(accts, last.from, symbol_name(last.quantity.symbol)) = 0
    /\ last.op \in {"burn", "transfer", "transferfree"} =>
           \/ ~HasRow(accts, last.from, symbol_name(last.quantity.symbol))
           \/ Balance(accts, last.from, symbol_name(last.quantity.symbol)) > 0

\* a signup has just left a row with balance 0
ZeroBalanceRowWitness ==
    /\ last.op = "signup"
    /\ \E k \in DOMAIN accts : accts[k].balance.amount = 0

ValidateThenMutate ==
    \A c \in SmallCalls :
        LET r == Run(Begin, c) IN r.err # "" => r.writes = 0

(* C5, amended.  The checks a handler makes itself come before its first   *)
(* write, but the checks made inside the debit, the credit and the         *)
(* re-dispatched transfer come after earlier writes of the same call: a    *)
(* call that aborts after a write is a burn whose debit fails (one write:  *)
(* the supply), a transferfree whose credit finds no row (one write: the   *)
(* debit), or an issue to another account whose transfer fails (two or     *)
(* three writes).  create and signup never abort after a write.            *)
LateAbortsOnly ==
    \A c \in SmallCalls :
        LET r == Run(Begin, c) IN
        (r.err # "" /\ r.writes > 0) =>
            \/ /\ c.op = "burn"
               /\ r.err \in {"no balance object found", "overdrawn balance"}
               /\ r.writes = 1
            \/ /\ c.op = "transferfree"
               /\ r.err = "destination account does not have balance"
               /\ r.writes = 1
            \/ /\ c.op \in {"issue", "issuefree"}
               /\ c.to # stats[symbol_name(c.quantity.symbol)].issuer
               /\ \/ /\ r.err \in {"to account does not exist",
                                   "must transfer positive quantity"}
                     /\ r.writes = 2
                  \/ /\ c.op = "issuefree"
                     /\ r.err = "destination account does not have balance"
                     /\ r.writes = 3

\* each of the three late aborts can happen in one state
LateAbortWitness ==
    /\ last.op = "signup"
    /\ \E c \in SmallCalls :
           c.op = "burn" /\ Run(Begin, c).err = "no balance object found"
                         /\ Run(Begin, c).writes = 1
    /\ \E c \in SmallCalls :
           c.op = "transferfree" /\ Run(Begin, c).writes = 1
                                 /\ Run(Begin, c).err # ""
    /\ \E c \in SmallCalls :
           c.op = "issuefree" /\ Run(Begin, c).writes = 3
                              /\ Run(Begin, c).err # ""

(* C6.  Supply cap on issue.  For an issue or issuefree of a registered    *)
(* symbol by its issuer, with a valid quantity qty >= 0 of the symbol's    *)
(* precision and a memo that fits: the call fails with "quantity exceeds   *)
(* available supply" exactly when qty > max_supply - current_supply;       *)
(* issuing exactly max_supply - current_supply (to the issuer, or to a     *)
(* destination the re-dispatched transfer accepts) succeeds and leaves     *)
(* current_supply = max_supply; issuing one unit more fails with that      *)
(* error and leaves the supply as it was.                                  *)
ReachesSupplyCheck(c) ==
    /\ c.op \in {"issue", "issuefree"}
    /\ symbol_is_valid(c.quantity.symbol)
    /\ c.memo <= MaxMemo
    /\ symbol_name(c.quantity.symbol) \in DOMAIN stats
    /\ c.auth = stats[symbol_name(c.quantity.symbol)].issuer
    /\ asset_is_valid(c.quantity)
    /\ c.quantity.amount >= 0
    /\ c.quantity.symbol = stats[symbol_name(c.quantity.symbol)].supply.symbol

\* the destination is the issuer, or the transfer to it passes its checks
DestinationAccepts(c) ==
    LET code == symbol_name(c.quantity.symbol) IN
    \/ c.to = stats[code].issuer
    \/ /\ is_account(c.to)
       /\ c.quantity.amount > 0
       /\ c.op = "issue" \/ HasRow(accts, c.to, code)

Headroom(code) == stats[code].max_supply.amount - stats[code].supply.amount

SupplyCapOnIssue ==
    \A c \in SmallCalls :
        ReachesSupplyCheck(c) =>
            LET r == Run(Begin, c)
                code == symbol_name(c.quantity.symbol)
                qty == c.quantity.amount
            IN
            /\ r.err = "quantity exceeds available supply" <=> qty > Headroom(code)
            /\ (qty = Headroom(code) /\ DestinationAccepts(c)) =>
                   /\ r.err = ""
                   /\ r.stats[code].supply.amount = stats[code].max_supply.amount
            /\ qty = Headroom(code) + 1 =>
                   /\ r.err = "quantity exceeds available supply"
                   /\ r.stats[code].supply.amount = stats[code].supply.amount

\* an issue of the whole headroom has been committed, and one unit more is
\* refused now
SupplyCapWitness ==
    /\ last.op \in {"issue", "issuefree"}
    /\ last.quantity.amount = MaxSupply
    /\ "TOK" \in DOMAIN stats
    /\ Headroom("TOK") = 0
    /\ \E c \in SmallCalls :
           /\ ReachesSupplyCheck(c)
           /\ c.quantity.amount = 1
           /\ Run(Begin, c).err = "quantity exceeds available supply"

---------------------------------------------------------------------------
(* The scenarios of section 8: I is alice, U is bob, amounts of TOK with   *)
(* precision 4.                                                            *)

Tok(a) == asset(a, TOK4)

\* after scenarios 1-4: supply 40.0000 of 1000.0000, U holds 40.0000, the
\* row of I is gone
AfterScenario4 ==
    /\ DOMAIN stats = {"TOK"}
    /\ stats["TOK"] = [supply |-> Tok(400000), max_supply |-> Tok(10000000),
                       issuer |-> "alice"]
    /\ DOMAIN accts = {<<"bob", "TOK">>}
    /\ accts[<<"bob", "TOK">>].balance = Tok(400000)

(* C7, as stated.  Scenario 5: after scenarios 1-4 an issue of 961.0000    *)
(* by the issuer, to anyone, succeeds.                                     *)
Scenario5AsStated ==
    AfterScenario4 =>
        \A to \in Scenario.receivers :
            issue(Begin, "alice", to, Tok(9610000), 0).err = ""

(* C7, amended.  After scenarios 1-4 (supply 40.0000, maximum 1000.0000)   *)
(* an issue or issuefree of 961.0000 by the issuer fails with "quantity    *)
(* exceeds available supply" whoever the destination is, and so does       *)
(* 960.0001; 960.0000 is the boundary: it succeeds to I and to U and       *)
(* leaves current_supply = max_supply = 1000.0000.                         *)
Scenario5Boundary ==
    AfterScenario4 =>
        \A to \in Scenario.receivers, pay_ram \in BOOLEAN :
            LET over == do_issue(Begin, "alice", to, Tok(9610000), 0, pay_ram)
                unit == do_issue(Begin, "alice", to, Tok(9600001), 0, pay_ram)
                edge == do_issue(Begin, "alice", to, Tok(9600000), 0, pay_ram)
            IN
            /\ over.err = "quantity exceeds available supply"
            /\ Tables(over.stats, over.accts) = Tables(stats, accts)
            /\ unit.err = "quantity exceeds available supply"
            /\ edge.err = ""
            /\ edge.stats["TOK"].supply = Tok(10000000)
            /\ edge.stats["TOK"].supply = edge.stats["TOK"].max_supply
            /\ Balance(edge.accts, to, "TOK")
                   = Balance(accts, to, "TOK") + 9600000

\* the boundary issue of 960.0000 to U has been committed as the sixth
\* action, after the burn of scenario 4
Scenario5Witness ==
    /\ calls = 6
    /\ last = Action("issue", "", "bob", Tok(9600000))
    /\ stats["TOK"].supply = Tok(10000000)
    /\ DOMAIN accts = {<<"bob", "TOK">>}
    /\ accts[<<"bob", "TOK">>].balance = Tok(10000000)

\* every amount of the scenarios, offered in any state by the properties
ScenarioCalls ==
    CallsOf(Scenario, UNION {Scenario.script[i] : i \in 1..Len(Scenario.script)})

\* the context of the call that follows the committed call r
After(r) == Start(r.stats, r.accts)

\* the checks do_transfer makes before it debits
ReachesTransferDebit(c) ==
    /\ c.op \in {"transfer", "transferfree"}
    /\ c.from # c.to
    /\ c.auth = c.from
    /\ is_account(c.to)
    /\ symbol_name(c.quantity.symbol) \in DOMAIN stats
    /\ asset_is_valid(c.quantity)
    /\ c.quantity.amount > 0
    /\ c.quantity.symbol = stats[symbol_name(c.quantity.symbol)].supply.symbol
    /\ c.memo <= MaxMemo

\* the checks burn makes before it debits
ReachesBurnDebit(c) ==
    /\ c.op = "burn"
    /\ symbol_is_valid(c.quantity.symbol)
    /\ c.memo <= MaxMemo
    /\ symbol_name(c.quantity.symbol) \in DOMAIN stats
    /\ c.auth = c.from
    /\ asset_is_valid(c.quantity)
    /\ c.quantity.amount >= 0
    /\ c.quantity.symbol = stats[symbol_name(c.quantity.symbol)].supply.symbol
    /\ c.quantity.amount <= stats[symbol_name(c.quantity.symbol)].supply.amount

\* after scenarios 1-2: supply 100.0000, all of it held by I
AfterScenario2 ==
    /\ DOMAIN stats = {"TOK"}
    /\ stats["TOK"] = [supply |-> Tok(1000000), max_supply |-> Tok(10000000),
                       issuer |-> "alice"]
    /\ DOMAIN accts = {<<"alice", "TOK">>}
    /\ accts[<<"alice", "TOK">>].balance = Tok(1000000)

\* after scenario 3: I holds 60.0000, U holds 40.0000
AfterScenario3 ==
    /\ DOMAIN stats = {"TOK"}
    /\ stats["TOK"] = [supply |-> Tok(1000000), max_supply |-> Tok(10000000),
                       issuer |-> "alice"]
    /\ DOMAIN accts = {<<"alice", "TOK">>, <<"bob", "TOK">>}
    /\ accts[<<"alice", "TOK">>].balance = Tok(600000)
    /\ accts[<<"bob", "TOK">>].balance = Tok(400000)

(* C8.  Destination auto-create policy.  A transfer whose other            *)
(* preconditions hold (the sender can pay) and whose destination has no    *)
(* row for the symbol fails with "destination account does not have        *)
(* balance" and creates no row when it is a transferfree, and succeeds     *)
(* creating the row with balance = qty when it is a transfer; when the     *)
(* destination has a row, of balance zero or more, both succeed and add    *)
(* qty to it.  In particular, after create(1000.0000) and                  *)
(* issue(I, 100.0000): transferfree(I to U, 40.0000) is refused, and       *)
(* signup(U, 0) followed by it leaves I at 60.0000 and U at 40.0000.       *)
DestinationPolicy ==
    /\ \A c \in ScenarioCalls :
           LET code == symbol_name(c.quantity.symbol)
               qty == c.quantity.amount
               r == Run(Begin, c)
           IN
           (ReachesTransferDebit(c) /\ HasRow(accts, c.from, code)
                /\ Balance(accts, c.from, code) >= qty) =>
               IF ~HasRow(accts, c.to, code)
               THEN IF c.op = "transferfree"
                    THEN /\ r.err = "destination account does not have balance"
                         /\ Tables(r.stats, r.accts) = Tables(stats, accts)
                    ELSE /\ r.err = ""
                         /\ HasRow(r.accts, c.to, code)
                         /\ r.accts[<<c.to, code>>].balance = c.quantity
               ELSE /\ r.err = ""
                    /\ HasRow(r.accts, c.to, code)
                    /\ Balance(r.accts, c.to, code) = Balance(accts, c.to, code) + qty
    /\ AfterScenario2 =>
           LET refused == transferfree(Begin, "alice", "alice", "bob", Tok(400000), 0)
               signed == signup(Begin, "bob", "bob", Tok(0))
               moved == transferfree(After(signed), "alice", "alice", "bob",
                                     Tok(400000), 0)
           IN
           /\ refused.err = "destination account does not have balance"
           /\ signed.err = ""
           /\ signed.accts[<<"bob", "TOK">>].balance = Tok(0)
           /\ moved.err = ""
           /\ moved.accts[<<"alice", "TOK">>].balance = Tok(600000)
           /\ moved.accts[<<"bob", "TOK">>].balance = Tok(400000)
           /\ moved.stats = stats

\* scenario 3 has been played: create, issue, signup, and the transferfree
\* of 40.0000 as the fourth committed action
DestinationPolicyWitness ==
    /\ calls = 4
    /\ last = Action("transferfree", "alice", "bob", Tok(400000))
    /\ AfterScenario3

(* C9.  Debit rule.  A debit of qty from an account, made by a burn or a   *)
(* transfer that has passed its own checks, fails with "no balance object  *)
(* found" when the account has no row for the symbol and with "overdrawn   *)
(* balance" when its balance < qty; when balance = qty the row is deleted, *)
(* when balance > qty the row stays with balance - qty.  A successful      *)
(* burn also decreases current_supply by exactly qty.  After scenario 3    *)
(* (I holds 60.0000, supply 100.0000): burn of 60.0001 by I fails as       *)
(* overdrawn, burn of 60.0000 deletes the row of I and leaves supply       *)
(* 40.0000.                                                                *)
DebitRule ==
    /\ \A c \in ScenarioCalls :
           LET code == symbol_name(c.quantity.symbol)
               qty == c.quantity.amount
               bal == Balance(accts, c.from, code)
               r == Run(Begin, c)
           IN
           (ReachesBurnDebit(c) \/ ReachesTransferDebit(c)) =>
               /\ ~HasRow(accts, c.from, code) => r.err = "no balance object found"
               /\ (HasRow(accts, c.from, code) /\ bal < qty) =>
                      r.err = "overdrawn balance"
               /\ (HasRow(accts, c.from, code) /\ bal >= qty) =>
                      /\ r.err \in {"", "destination account does not have balance"}
                      /\ c.op = "burn" => r.err = ""
               /\ (r.err = "" /\ bal = qty) => ~HasRow(r.accts, c.from, code)
               /\ (r.err = "" /\ bal > qty) =>
                      /\ HasRow(r.accts, c.from, code)
                      /\ Balance(r.accts, c.from, code) = bal - qty
               /\ (r.err = "" /\ c.op = "burn") =>
                      r.stats[code].supply.amount = stats[code].supply.amount - qty
    /\ AfterScenario3 =>
           LET over == burn(Begin, "alice", "alice", Tok(600001), 0)
               whole == burn(Begin, "alice", "alice", Tok(600000), 0)
           IN
           /\ over.err = "overdrawn balance"
           /\ whole.err = ""
           /\ ~HasRow(whole.accts, "alice", "TOK")
           /\ whole.stats["TOK"].supply = Tok(400000)
           /\ Balance(whole.accts, "bob", "TOK") = 400000

\* scenario 4 has been played: the burn of 60.0000 is the fifth committed
\* action and the row of I is gone
DebitRuleWitness ==
    /\ calls = 5
    /\ last = Action("burn", "alice", "", Tok(600000))
    /\ AfterScenario4

---------------------------------------------------------------------------
(* Round trips.                                                            *)

\* the row of owner for symbol code c, as a set: empty when there is none
Entry(ac, owner, c) ==
    IF HasRow(ac, owner, c) THEN {ac[<<owner, c>>]} ELSE {}

\* the transfer that sends the quantity of transfer c back, same variant
Reverse(c) == Call(c.op, c.to, c.to, c.from, c.quantity, c.memo)

TransferCalls == {c \in SmallCalls : c.op \in {"transfer", "transferfree"}}

(* C10, as stated.  Whenever transfer(A to B, n) succeeds, the immediately *)
(* following transfer(B to A, n) of the same variant succeeds and leaves   *)
(* the rows of A and of B exactly as they were before the first transfer,  *)
(* their existence included.                                               *)
RoundTripExact ==
    \A c \in TransferCalls :
        LET code == symbol_name(c.quantity.symbol)
            there == Run(Begin, c)
            back == Run(After(there), Reverse(c))
        IN
        there.err = "" =>
            /\ back.err = ""
            /\ Entry(back.accts, c.from, code) = Entry(accts, c.from, code)
            /\ Entry(back.accts, c.to, code) = Entry(accts, c.to, code)

(* C10, amended.  Whenever transfer(A to B, n) succeeds, the immediately   *)
(* following transfer(B to A, n) of the same variant succeeds exactly when *)
(* the variant is transfer (pay_ram) or A held more than n: a transferfree *)
(* of the whole balance of A deletes the row of A, and the way back is     *)
(* refused with "destination account does not have balance".  When the way *)
(* back succeeds, both balances are what they were (no row counting as 0)  *)
(* and so is the row of A; the row of B is as it was, except that a row of *)
(* balance 0 that B held is deleted.                                       *)
RoundTripBalances ==
    \A c \in TransferCalls :
        LET code == symbol_name(c.quantity.symbol)
            n == c.quantity.amount
            there == Run(Begin, c)
            back == Run(After(there), Reverse(c))
        IN
        there.err = "" =>
            /\ back.err = "" <=>
                   (c.op = "transfer" \/ Balance(accts, c.from, code) > n)
            /\ back.err # "" =>
                   /\ back.err = "destination account does not have balance"
                   /\ ~HasRow(there.accts, c.from, code)
            /\ back.err = "" =>
                   /\ Entry(back.accts, c.from, code) = Entry(accts, c.from, code)
                   /\ Balance(back.accts, c.to, code) = Balance(accts, c.to, code)
                   /\ IF HasRow(accts, c.to, code) /\ Balance(accts, c.to, code) = 0
                      THEN ~HasRow(back.accts, c.to, code)
                      ELSE Entry(back.accts, c.to, code) = Entry(accts, c.to, code)
                   /\ back.stats = stats

\* a transfer has been committed, and from here one round trip deletes a
\* row of balance 0 and the way back of another is refused
RoundTripWitness ==
    /\ last.op \in {"transfer", "transferfree"}
    /\ \E c \in TransferCalls :
           /\ Run(Begin, c).err = ""
           /\ Run(After(Run(Begin, c)), Reverse(c)).err = ""
           /\ HasRow(accts, c.to, symbol_name(c.quantity.symbol))
           /\ Balance(accts, c.to, symbol_name(c.quantity.symbol)) = 0
    /\ \E c \in TransferCalls :
           /\ Run(Begin, c).err = ""
           /\ Run(After(Run(Begin, c)), Reverse(c)).err # ""

---------------------------------------------------------------------------
(* C11: issue to the issuer itself, then burn of the same quantity.        *)

\* the issue calls, the burn calls and the signup calls of the small universe
IssueCalls ==
    {Call(op, e[1], "", to, q, e[2]) :
         op \in {"issue", "issuefree"}, e \in Envelopes,
         to \in Small.receivers, q \in Small.script[1]}

BurnCalls ==
    {Call("burn", e[1], f, "", q, e[2]) :
         e \in Envelopes, f \in Small.owners, q \in Small.script[1]}

SignupCalls ==
    {Call("signup", a, f, "", q, 0) :
         a \in Accounts, f \in Small.owners, q \in Small.script[1]}

\* the burn by which the destination of issue c gives its quantity back
BurnBack(c) == Call("burn", c.to, c.to, "", c.quantity, c.memo)

\* issue c passes every check of do_issue and its destination is the issuer
IssuesToIssuer(c) ==
    /\ ReachesSupplyCheck(c)
    /\ c.quantity.amount <= Headroom(symbol_name(c.quantity.symbol))
    /\ c.to = stats[symbol_name(c.quantity.symbol)].issuer

(* C11, as stated.  When the issuer issues a quantity to itself and then   *)
(* burns the same quantity from its own account, both calls succeed, and   *)
(* current_supply and the issuer's balance row (its value and whether it   *)
(* exists) are exactly what they were before the issue.                    *)
IssueBurnExact ==
    \A c \in IssueCalls :
        LET code == symbol_name(c.quantity.symbol)
            issued == Run(Begin, c)
            burnt == Run(After(issued), BurnBack(c))
        IN
        IssuesToIssuer(c) =>
            /\ issued.err = ""
            /\ burnt.err = ""
            /\ burnt.stats = stats
            /\ Entry(burnt.accts, c.to, code) = Entry(accts, c.to, code)

(* C11, amended.  When the issuer issues a quantity to itself and then     *)
(* burns the same quantity from its own account, both calls succeed, the   *)
(* supply row is what it was, the issuer's balance is what it was (no row  *)
(* counting as 0), the rows of the other accounts are what they were, and  *)
(* the issuer's row is what it was, except that a row of balance 0 that    *)
(* the issuer held is deleted: the burn finds balance = quantity there.    *)
IssueBurnBalances ==
    \A c \in IssueCalls :
        LET code == symbol_name(c.quantity.symbol)
            issued == Run(Begin, c)
            burnt == Run(After(issued), BurnBack(c))
        IN
        IssuesToIssuer(c) =>
            /\ issued.err = ""
            /\ burnt.err = ""
            /\ burnt.stats = stats
            /\ Balance(burnt.accts, c.to, code) = Balance(accts, c.to, code)
            /\ IF HasRow(accts, c.to, code) /\ Balance(accts, c.to, code) = 0
               THEN ~HasRow(burnt.accts, c.to, code)
               ELSE burnt.accts = accts
            /\ \A k \in DOMAIN accts \ {<<c.to, code>>} :
                   k \in DOMAIN burnt.accts /\ burnt.accts[k] = accts[k]

\* the issuer has signed up and holds a row of balance 0, and from here a
\* round trip of a positive quantity succeeds and deletes that row
IssueBurnWitness ==
    /\ last.op = "signup"
    /\ \E c \in IssueCalls :
           /\ IssuesToIssuer(c)
           /\ c.quantity.amount > 0
           /\ last.from = c.to
           /\ HasRow(accts, c.to, symbol_name(c.quantity.symbol))
           /\ Balance(accts, c.to, symbol_name(c.quantity.symbol)) = 0
           /\ Run(After(Run(Begin, c)), BurnBack(c)).err = ""
           /\ ~HasRow(Run(After(Run(Begin, c)), BurnBack(c)).accts, c.to,
                      symbol_name(c.quantity.symbol))

---------------------------------------------------------------------------
(* C12: signup.                                                            *)

\* the checks signup makes before it looks for the owner's row
ReachesSignupLookup(c) ==
    /\ c.op = "signup"
    /\ symbol_is_valid(c.quantity.symbol)
    /\ symbol_name(c.quantity.symbol) \in DOMAIN stats
    /\ c.auth = c.from

(* C12.  A signup succeeds only with quantity 0 and an owner that has no   *)
(* row for the symbol, and it does succeed when, besides, it carries the   *)
(* owner's authority and the symbol is the registered one.  On success the *)
(* owner has a row of balance exactly 0, and the supply row and every      *)
(* other balance row are what they were; the same signup sent again is     *)
(* refused with "you have already signed up" and changes nothing, as is    *)
(* any signup the owner sends while it has a row.  A signup with a         *)
(* quantity other than 0 never succeeds.                                   *)
SignupRule ==
    \A c \in SignupCalls :
        LET code == symbol_name(c.quantity.symbol)
            key == <<c.from, code>>
            r == Run(Begin, c)
            again == Run(After(r), c)
        IN
        /\ r.err = "" <=>
               /\ ReachesSignupLookup(c)
               /\ ~HasRow(accts, c.from, code)
               /\ c.quantity = asset(0, stats[code].supply.symbol)
        /\ r.err = "" =>
               /\ r.stats = stats
               /\ r.accts = [k \in DOMAIN accts \cup {key} |->
                                IF k = key
                                THEN [balance |-> asset(0, stats[code].supply.symbol)]
                                ELSE accts[k]]
               /\ again.err = "you have already signed up"
               /\ Tables(again.stats, again.accts) = Tables(r.stats, r.accts)
        /\ ReachesSignupLookup(c) /\ HasRow(accts, c.from, code) =>
               /\ r.err = "you have already signed up"
               /\ Tables(r.stats, r.accts) = Tables(stats, accts)
        /\ c.quantity.amount # 0 => r.err # ""

\* an owner has signed up next to an account that holds tokens, and from
\* here one signup succeeds, one is refused as a duplicate and one is
\* refused for its quantity
SignupWitness ==
    /\ last.op = "signup"
    /\ HasRow(accts, last.from, "TOK")
    /\ Balance(accts, last.from, "TOK") = 0
    /\ \E o \in Accounts : Balance(accts, o, "TOK") > 0
    /\ \E c \in SignupCalls : Run(Begin, c).err = ""
    /\ \E c \in SignupCalls :
           c.from = last.from /\ Run(Begin, c).err = "you have already signed up"
    /\ \E c \in SignupCalls :
           Run(Begin, c).err = "quantity exceeds signup allowance"

---------------------------------------------------------------------------
(* C13: the life of a supply row.                                          *)

CreateCalls ==
    {Call("create", a, "", i, q, 0) :
         a \in Accounts, i \in Small.issuers, q \in Small.maxes}

\* the checks create makes before it looks for the row of the symbol code
ReachesCreateLookup(c) ==
    /\ c.op = "create"
    /\ c.auth = N_self
    /\ symbol_is_valid(c.quantity.symbol)
    /\ asset_is_valid(c.quantity)
    /\ c.quantity.amount > 0

\* a create for a registered code is refused and changes nothing, whatever
\* its precision; a create that succeeds inserts a row with supply 0
CreateRule ==
    \A c \in CreateCalls :
        LET code == symbol_name(c.quantity.symbol)
            r == Run(Begin, c)
        IN
        /\ ReachesCreateLookup(c) /\ code \in DOMAIN stats =>
               /\ r.err = "token with symbol already exists"
               /\ Tables(r.stats, r.accts) = Tables(stats, accts)
        /\ r.err = "" =>
               /\ code \notin DOMAIN stats
               /\ r.stats[code] = [supply     |-> asset(0, c.quantity.symbol),
                                   max_supply |-> c.quantity,
                                   issuer     |-> c.to]
               /\ \A k \in DOMAIN stats : r.stats[k] = stats[k]
               /\ r.accts = accts

\* a step keeps every supply row, with its issuer, max_supply and precision
KeepsSupplyRows ==
    \A code \in DOMAIN stats :
        /\ code \in DOMAIN stats'
        /\ stats'[code].issuer = stats[code].issuer
        /\ stats'[code].max_supply = stats[code].max_supply
        /\ stats'[code].supply.symbol = stats[code].supply.symbol

(* C13.  A create for a symbol code that is registered fails with "token   *)
(* with symbol already exists" and leaves the row as it is, even with      *)
(* another precision; a create that succeeds inserts a row with            *)
(* current_supply 0; and no step of any operation changes the issuer, the  *)
(* max_supply or the precision of a supply row, or deletes the row.        *)
SupplyRowLifecycle == [](CreateRule) /\ [][KeepsSupplyRows]_vars

\* tokens of a registered symbol have been issued and moved, and a create
\* for its code with another precision and another issuer is refused
SupplyRowWitness ==
    /\ last.op \in {"transfer", "transferfree", "burn"}
    /\ "TOK" \in DOMAIN stats
    /\ stats["TOK"].supply.amount > 0
    /\ \E c \in CreateCalls :
           /\ symbol_name(c.quantity.symbol) = "TOK"
           /\ c.quantity.symbol # stats["TOK"].supply.symbol
           /\ c.to # stats["TOK"].issuer
           /\ Run(Begin, c).err = "token with symbol already exists"

---------------------------------------------------------------------------
(* C14: an issue to another account than the issuer runs a transfer.       *)

\* issue c passes every check of do_issue and its destination is not the
\* issuer
IssuesToOther(c) ==
    /\ ReachesSupplyCheck(c)
    /\ c.quantity.amount <= Headroom(symbol_name(c.quantity.symbol))
    /\ c.to # stats[symbol_name(c.quantity.symbol)].issuer

\* the same issue with the issuer as its destination
ToIssuer(c) ==
    [c EXCEPT !.to = stats[symbol_name(c.quantity.symbol)].issuer]

\* the transfer, of the variant of issue c, that the issuer would send to
\* move the quantity to the destination of c
Forward(c) ==
    Call(IF c.op = "issue" THEN "transfer" ELSE "transferfree",
         stats[symbol_name(c.quantity.symbol)].issuer,
         stats[symbol_name(c.quantity.symbol)].issuer,
         c.to, c.quantity, c.memo)

(* C14.  An issue that passes the checks of issue and names a destination  *)
(* other than the issuer ends as the transfer (issue) or transferfree      *)
(* (issuefree) of the quantity from the issuer to the destination ends     *)
(* when it is sent after the same issue to the issuer: with the same       *)
(* error, or with the same tables.  So an issue of quantity 0 to another   *)
(* account fails ("must transfer positive quantity" when the account       *)
(* exists), an issuefree to an account without a row fails with            *)
(* "destination account does not have balance", and a failed issue leaves  *)
(* the supply row and the issuer's row as they were.                       *)
IssueRunsTransfer ==
    \A c \in IssueCalls :
        LET code == symbol_name(c.quantity.symbol)
            r == Run(Begin, c)
            credited == Run(Begin, ToIssuer(c))
            moved == Run(After(credited), Forward(c))
        IN
        IssuesToOther(c) =>
            /\ credited.err = ""
            /\ r.err = moved.err
            /\ r.err = "" => Tables(r.stats, r.accts) = Tables(moved.stats, moved.accts)
            /\ r.err # "" =>
                   /\ r.stats = stats
                   /\ Entry(r.accts, stats[code].issuer, code)
                          = Entry(accts, stats[code].issuer, code)
                   /\ r.accts = accts
            /\ c.quantity.amount = 0 =>
                   /\ r.err # ""
                   /\ is_account(c.to) => r.err = "must transfer positive quantity"
            /\ (/\ c.op = "issuefree"
                /\ c.quantity.amount > 0
                /\ is_account(c.to)
                /\ ~HasRow(accts, c.to, code)) =>
                   r.err = "destination account does not have balance"

\* an issue to another account has been committed, and from here an issue
\* of 0 to another account and an issuefree to an account without a row
\* are refused after the supply row and the issuer's row were written
IssueRunsTransferWitness ==
    /\ last.op \in {"issue", "issuefree"}
    /\ "TOK" \in DOMAIN stats
    /\ last.to # stats["TOK"].issuer
    /\ \E c \in IssueCalls :
           /\ IssuesToOther(c)
           /\ c.quantity.amount = 0
           /\ Run(Begin, c).err = "must transfer positive quantity"
           /\ Run(Begin, c).writes = 2
    /\ \E c \in IssueCalls :
           /\ IssuesToOther(c)
           /\ Run(Begin, c).err = "destination account does not have balance"
           /\ Run(Begin, c).writes = 3
    /\ \E c \in IssueCalls :
           /\ IssuesToOther(c)
           /\ c.op = "issuefree"
           /\ Run(Begin, c).err = ""

---------------------------------------------------------------------------
(* C15: the order of the two writes of burn.  The tables between them are  *)
(* the first entry of the log of the call.                                 *)

(* C15, as stated.  A burn that passes its checks debits the balance of    *)
(* from before it decreases current_supply: after its first write the      *)
(* supply row is still what it was, and the sum of the balances of the     *)
(* symbol is not greater than current_supply.                              *)
BurnDebitsFirst ==
    \A c \in BurnCalls :
        LET code == symbol_name(c.quantity.symbol)
            r == Run(Begin, c)
        IN
        ReachesBurnDebit(c) /\ r.err = "" =>
            /\ r.log[1].stats = stats
            /\ SumBalances(r.log[1].accts, Accounts, code)
                   <= r.log[1].stats[code].supply.amount

(* C15, amended.  A burn that passes its checks decreases current_supply   *)
(* first and debits the balance of from after it: after its first write    *)
(* the balances are what they were and current_supply is smaller by the    *)
(* quantity, so the sum of the balances of the symbol exceeds              *)
(* current_supply by exactly the quantity.  These tables are never         *)
(* committed: when the debit is refused the call ends with the tables of   *)
(* its start, and when it succeeds the second write makes the sum equal to *)
(* current_supply again.                                                   *)
BurnAdjustsFirst ==
    \A c \in BurnCalls :
        LET code == symbol_name(c.quantity.symbol)
            n == c.quantity.amount
            r == Run(Begin, c)
        IN
        ReachesBurnDebit(c) =>
            /\ r.writes >= 1
            /\ r.log[1].accts = accts
            /\ r.log[1].stats[code].supply.amount = stats[code].supply.amount - n
            /\ SumBalances(r.log[1].accts, Accounts, code)
                   = r.log[1].stats[code].supply.amount + n
            /\ r.err # "" =>
                   /\ r.writes = 1
                   /\ r.err \in {"no balance object found", "overdrawn balance"}
                   /\ Tables(r.stats, r.accts) = Tables(stats, accts)
            /\ r.err = "" =>
                   /\ r.writes = 2
                   /\ r.log[2] = Tables(r.stats, r.accts)
                   /\ r.stats = r.log[1].stats
                   /\ Balance(r.accts, c.from, code) = Balance(accts, c.from, code) - n
                   /\ SumBalances(r.accts, Accounts, code) = r.stats[code].supply.amount

\* a burn has been committed, and from here a burn of a positive quantity
\* succeeds and another is refused at its debit
BurnOrderWitness ==
    /\ last.op = "burn"
    /\ \E c \in BurnCalls :
           /\ ReachesBurnDebit(c)
           /\ c.quantity.amount > 0
           /\ Run(Begin, c).err = ""
    /\ \E c \in BurnCalls :
           /\ ReachesBurnDebit(c)
           /\ Run(Begin, c).err = "overdrawn balance"

---------------------------------------------------------------------------
(* C16: a transfer as two steps.  Under InterruptSpec a transfer may stop  *)
(* between its debit and its credit and leave the tables of that moment,   *)
(* the first entry of its log, for the calls that follow.                  *)

\* alice issues TOK, alice and bob hold and move it
Interruptible ==
    [issuers   |-> {"alice"},
     owners    |-> {"alice", "bob"},
     receivers |-> {"alice", "bob"},
     maxes     |-> {asset(MaxSupply, TOK4)},
     script    |-> << {asset(a, TOK4) : a \in 0..MaxSupply} >>,
     scripted  |-> FALSE]

\* do_transfer stopped after sub_balance( from, quantity ), before
\* add_balance( to, quantity, from, pay_ram )
Interrupted(U) ==
    \E env \in Envelopes, from \in U.owners, to \in U.receivers,
       quantity \in Quantities(U), pay_ram \in BOOLEAN :
        LET r == do_transfer(Begin, env[1], from, to, quantity, env[2], pay_ram) IN
        /\ r.writes >= 1
        /\ stats' = r.log[1].stats
        /\ accts' = r.log[1].accts
        /\ last' = Action("interrupted", from, to, quantity)
        /\ UNCHANGED calls

InterruptNext == Step(Interruptible) \/ Interrupted(Interruptible)
InterruptSpec == Init /\ [][InterruptNext]_vars

InterruptibleTransfers ==
    {Call(op, e[1], f, to, q, e[2]) :
         op \in {"transfer", "transferfree"}, e \in Envelopes,
         f \in Interruptible.owners, to \in Interruptible.receivers,
         q \in Interruptible.script[1]}

(* C16.  With transfers that may stop between their two steps, in every    *)
(* reachable state the sum of the balances of a symbol is at most its      *)
(* current_supply; and a transfer that passes its checks debits first:     *)
(* after its first write from holds the quantity less, to and every other  *)
(* row hold what they held and the supply row is as it was, so the         *)
(* quantity is on neither account; after its second write to holds the     *)
(* quantity more and the sum of the balances is what it was before.        *)
TransferNeverDoubleCounts ==
    /\ \A code \in DOMAIN stats :
           SumBalances(accts, Accounts, code) <= stats[code].supply.amount
    /\ \A c \in InterruptibleTransfers :
           LET code == symbol_name(c.quantity.symbol)
               n == c.quantity.amount
               r == Run(Begin, c)
           IN
           ReachesTransferDebit(c) /\ r.writes >= 1 =>
               /\ r.log[1].stats = stats
               /\ Balance(r.log[1].accts, c.from, code)
                      = Balance(accts, c.from, code) - n
               /\ \A k \in DOMAIN accts \ {<<c.from, code>>} :
                      k \in DOMAIN r.log[1].accts /\ r.log[1].accts[k] = accts[k]
               /\ SumBalances(r.log[1].accts, Accounts, code)
                      = SumBalances(accts, Accounts, code) - n
               /\ r.err = "" =>
                      /\ r.writes = 2
                      /\ r.log[2] = Tables(r.stats, r.accts)
                      /\ Balance(r.accts, c.to, code) = Balance(accts, c.to, code) + n
                      /\ Balance(r.accts, c.from, code)
                             = Balance(accts, c.from, code) - n
                      /\ SumBalances(r.accts, Accounts, code)
                             = SumBalances(accts, Accounts, code)

\* a transfer has stopped between its steps, a later transfer has been
\* committed, and the quantity of the first is on no account
InterruptedWitness ==
    /\ last.op \in {"transfer", "transferfree"}
    /\ "TOK" \in DOMAIN stats
    /\ SumBalances(accts, Accounts, "TOK") < stats["TOK"].supply.amount
    /\ \E c \in InterruptibleTransfers :
           ReachesTransferDebit(c) /\ Run(Begin, c).err = ""

---------------------------------------------------------------------------
(* C17: what a transfer leaves alone.  Under PairSpec two symbols are      *)
(* registered side by side and three accounts hold them.                   *)

\* the largest supply of TOK next to ABC
MaxPair == 2

\* alice issues TOK and ABC, alice and bob hold and move them, and dex
\* holds what it is sent
Pair ==
    [issuers   |-> {"alice"},
     owners    |-> {"alice", "bob"},
     receivers |-> Accounts,
     maxes     |-> {asset(MaxPair, TOK4), asset(1, ABC4)},
     script    |-> << {asset(a, TOK4) : a \in 0..MaxPair}
                      \cup {asset(a, ABC4) : a \in 0..1} >>,
     scripted  |-> FALSE]

PairNext == Step(Pair)
PairSpec == Init /\ [][PairNext]_vars

PairTransfers ==
    {Call(op, e[1], f, to, q, e[2]) :
         op \in {"transfer", "transferfree"}, e \in Envelopes,
         f \in Pair.owners, to \in Pair.receivers, q \in Pair.script[1]}

(* C17.  A transfer or transferfree that succeeds leaves the stats table   *)
(* as it was and changes two balance rows only, those of from and of to    *)
(* for the symbol of the quantity: from holds the quantity less and to the *)
(* quantity more; the rows of every other symbol and of every other        *)
(* account are what they were.  A transfer with from = to fails with       *)
(* "cannot transfer to self", whatever else it carries, and changes        *)
(* nothing.                                                                *)
TransferFrame ==
    \A c \in PairTransfers :
        LET code == symbol_name(c.quantity.symbol)
            n == c.quantity.amount
            r == Run(Begin, c)
            moved == {<<c.from, code>>, <<c.to, code>>}
        IN
        /\ c.from = c.to =>
               /\ r.err = "cannot transfer to self"
               /\ Tables(r.stats, r.accts) = Tables(stats, accts)
        /\ r.err = "" =>
               /\ c.from # c.to
               /\ r.stats = stats
               /\ Balance(r.accts, c.from, code) = Balance(accts, c.from, code) - n
               /\ Balance(r.accts, c.to, code) = Balance(accts, c.to, code) + n
               /\ DOMAIN r.accts \ moved = DOMAIN accts \ moved
               /\ \A k \in DOMAIN accts \ moved : r.accts[k] = accts[k]

\* both symbols are held, a transfer has been committed, and from here a
\* transfer succeeds while a third account holds the same symbol and its
\* sender holds the other symbol; a self-transfer is refused
TransferFrameWitness ==
    /\ last.op \in {"transfer", "transferfree"}
    /\ \E c \in PairTransfers, o \in Accounts, other \in DOMAIN stats :
           /\ Run(Begin, c).err = ""
           /\ o \notin {c.from, c.to}
           /\ Balance(accts, o, symbol_name(c.quantity.symbol)) > 0
           /\ other # symbol_name(c.quantity.symbol)
           /\ Balance(accts, c.from, other) > 0
    /\ \E c \in PairTransfers :
           /\ c.from = c.to
           /\ c.auth = c.from
           /\ c.quantity.amount > 0
           /\ Balance(accts, c.from, symbol_name(c.quantity.symbol)) > 0
           /\ Run(Begin, c).err = "cannot transfer to self"

---------------------------------------------------------------------------
(* C18: what an issue to another account does to the row of the issuer.    *)

(* C18, as stated.  An issue to a destination other than the issuer that   *)
(* succeeds increases current_supply and the balance of the destination by *)
(* the quantity and leaves the issuer's balance row exactly as it was,     *)
(* its existence included.                                                 *)
IssueKeepsIssuerRow ==
    \A c \in IssueCalls :
        LET code == symbol_name(c.quantity.symbol)
            n == c.quantity.amount
            r == Run(Begin, c)
        IN
        IssuesToOther(c) /\ r.err = "" =>
            /\ r.stats[code].supply.amount = stats[code].supply.amount + n
            /\ Balance(r.accts, c.to, code) = Balance(accts, c.to, code) + n
            /\ Entry(r.accts, stats[code].issuer, code)
                   = Entry(accts, stats[code].issuer, code)

(* C18, amended.  An issue to a destination other than the issuer that     *)
(* succeeds increases current_supply and the balance of the destination by *)
(* the quantity, leaves the rows of the other accounts as they were and    *)
(* leaves the issuer's balance as it was (no row counting as 0).  The      *)
(* issuer's row is as it was, except that a row of balance 0 that the      *)
(* issuer held is deleted: the quantity is credited to it and debited      *)
(* again, and the debit deletes a row that reaches 0.                      *)
IssueKeepsIssuerBalance ==
    \A c \in IssueCalls :
        LET code == symbol_name(c.quantity.symbol)
            n == c.quantity.amount
            issuer == stats[code].issuer
            r == Run(Begin, c)
        IN
        IssuesToOther(c) /\ r.err = "" =>
            /\ r.stats = [stats EXCEPT ![code].supply.amount = @ + n]
            /\ Balance(r.accts, c.to, code) = Balance(accts, c.to, code) + n
            /\ Balance(r.accts, issuer, code) = Balance(accts, issuer, code)
            /\ IF HasRow(accts, issuer, code) /\ Balance(accts, issuer, code) = 0
               THEN ~HasRow(r.accts, issuer, code)
               ELSE Entry(r.accts, issuer, code) = Entry(accts, issuer, code)
            /\ \A k \in DOMAIN accts \ {<<issuer, code>>, <<c.to, code>>} :
                   k \in DOMAIN r.accts /\ r.accts[k] = accts[k]

\* the issuer has signed up and holds a row of balance 0, and from here an
\* issue to another account succeeds and deletes that row
IssuerRowWitness ==
    /\ last.op = "signup"
    /\ \E c \in IssueCalls :
           /\ IssuesToOther(c)
           /\ last.from = stats[symbol_name(c.quantity.symbol)].issuer
           /\ HasRow(accts, last.from, symbol_name(c.quantity.symbol))
           /\ Balance(accts, last.from, symbol_name(c.quantity.symbol)) = 0
           /\ Run(Begin, c).err = ""
           /\ ~HasRow(Run(Begin, c).accts, last.from, symbol_name(c.quantity.symbol))

---------------------------------------------------------------------------
(* C19: an account whose row a debit has deleted.                          *)

TransferfreeCalls ==
    {Call("transferfree", e[1], f, to, q, e[2]) :
         e \in Envelopes, f \in Small.owners, to \in Small.receivers,
         q \in Small.script[1]}

\* transferfree c passes the checks of do_transfer and its debit
ReachesCredit(c) ==
    /\ ReachesTransferDebit(c)
    /\ HasRow(accts, c.from, symbol_name(c.quantity.symbol))
    /\ Balance(accts, c.from, symbol_name(c.quantity.symbol)) >= c.quantity.amount

\* the signup by which account o asks for a row of symbol sym
SignupOf(o, sym) == Call("signup", o, o, "", asset(0, sym), 0)

\* a burn or a transfer that took the whole balance of its sender has just
\* been committed
JustEmptied(o, code) ==
    /\ last.op \in {"burn", "transfer", "transferfree"}
    /\ last.from = o
    /\ symbol_name(last.quantity.symbol) = code
    /\ ~HasRow(accts, o, code)

(* C19, as stated.  When a burn or a transfer that took the whole balance  *)
(* of its sender has just been committed, the sender has no row, every     *)
(* transferfree and every issuefree to it that is otherwise in order fails *)
(* with "destination account does not have balance", and its signup        *)
(* succeeds.                                                               *)
EmptiedRefusesAll ==
    /\ \A c \in TransferfreeCalls :
           (/\ ReachesCredit(c)
            /\ JustEmptied(c.to, symbol_name(c.quantity.symbol))) =>
               Run(Begin, c).err = "destination account does not have balance"
    /\ \A c \in IssueCalls :
           (/\ c.op = "issuefree"
            /\ ReachesSupplyCheck(c)
            /\ c.quantity.amount > 0
            /\ c.quantity.amount <= Headroom(symbol_name(c.quantity.symbol))
            /\ JustEmptied(c.to, symbol_name(c.quantity.symbol))) =>
               Run(Begin, c).err = "destination account does not have balance"
    /\ \A o \in Accounts, code \in DOMAIN stats :
           JustEmptied(o, code) =>
               Run(Begin, SignupOf(o, stats[code].supply.symbol)).err = ""

(* C19, amended.  The row of the sender is gone after a debit that took    *)
(* its whole balance (the sender of a committed burn or transfer has no    *)
(* row or a positive balance).  While an account has no row, every         *)
(* transferfree to it that is otherwise in order fails with "destination   *)
(* account does not have balance", and so does every issuefree to it       *)
(* unless the account is the issuer: an issuefree to the issuer itself     *)
(* succeeds and creates the row again.  Its signup succeeds, and after the *)
(* signup the transferfree and the issuefree that were refused succeed.    *)
NoRowRefusesFree ==
    /\ last.op \in {"burn", "transfer", "transferfree"} =>
           \/ ~HasRow(accts, last.from, symbol_name(last.quantity.symbol))
           \/ Balance(accts, last.from, symbol_name(last.quantity.symbol)) > 0
    /\ \A c \in TransferfreeCalls :
           LET sym == c.quantity.symbol IN
           ReachesCredit(c) /\ ~HasRow(accts, c.to, symbol_name(sym)) =>
               /\ Run(Begin, c).err = "destination account does not have balance"
               /\ Run(After(Run(Begin, SignupOf(c.to, sym))), c).err = ""
    /\ \A c \in IssueCalls :
           LET sym == c.quantity.symbol
               code == symbol_name(sym)
           IN
           (/\ c.op = "issuefree"
            /\ ReachesSupplyCheck(c)
            /\ c.quantity.amount > 0
            /\ c.quantity.amount <= Headroom(code)
            /\ is_account(c.to)
            /\ ~HasRow(accts, c.to, code)) =>
               IF c.to = stats[code].issuer
               THEN /\ Run(Begin, c).err = ""
                    /\ HasRow(Run(Begin, c).accts, c.to, code)
               ELSE /\ Run(Begin, c).err = "destination account does not have balance"
                    /\ Run(After(Run(Begin, SignupOf(c.to, sym))), c).err = ""
    /\ \A o \in Accounts, code \in DOMAIN stats :
           ~HasRow(accts, o, code) =>
               LET r == Run(Begin, SignupOf(o, stats[code].supply.symbol)) IN
               /\ r.err = ""
               /\ HasRow(r.accts, o, code)

\* an account that is not the issuer has just sent its whole balance away,
\* and from here a transferfree and an issuefree to it are refused and its
\* signup succeeds
EmptiedWitness ==
    \E o \in Accounts :
        /\ JustEmptied(o, "TOK")
        /\ o # stats["TOK"].issuer
        /\ \E c \in TransferfreeCalls :
               /\ c.to = o
               /\ ReachesCredit(c)
               /\ Run(Begin, c).err = "destination account does not have balance"
        /\ \E c \in IssueCalls :
               /\ c.to = o
               /\ c.op = "issuefree"
               /\ Run(Begin, c).err = "destination account does not have balance"
        /\ Run(Begin, SignupOf(o, stats["TOK"].supply.symbol)).err = ""

---------------------------------------------------------------------------
(* C20: which check of burn fails first.                                   *)

\* the checks burn makes before it holds the quantity against the supply
ReachesBurnSupplyCheck(c) ==
    /\ c.op = "burn"
    /\ symbol_is_valid(c.quantity.symbol)
    /\ c.memo <= MaxMemo
    /\ symbol_name(c.quantity.symbol) \in DOMAIN stats
    /\ c.auth = c.from
    /\ asset_is_valid(c.quantity)
    /\ c.quantity.amount >= 0
    /\ c.quantity.symbol = stats[symbol_name(c.quantity.symbol)].supply.symbol

(* C20.  A burn of a valid quantity of a registered symbol that exceeds    *)
(* current_supply fails with "quantity exceeds available supply", before   *)
(* any write, whether from has a row or not.  A burn fails with "no        *)
(* balance object found" or "overdrawn balance" only when the quantity is  *)
(* at most current_supply: the former when from has no row, the latter     *)
(* when its balance is smaller than the quantity.  A burn of 0 by an       *)
(* account that holds a row of balance 0 succeeds and deletes the row.     *)
BurnPrecedence ==
    \A c \in BurnCalls :
        LET code == symbol_name(c.quantity.symbol)
            n == c.quantity.amount
            r == Run(Begin, c)
        IN
        /\ ReachesBurnSupplyCheck(c) /\ n > stats[code].supply.amount =>
               /\ r.err = "quantity exceeds available supply"
               /\ r.writes = 0
        /\ r.err \in {"no balance object found", "overdrawn balance"} =>
               /\ ReachesBurnDebit(c)
               /\ n <= stats[code].supply.amount
        /\ ReachesBurnDebit(c) =>
               /\ ~HasRow(accts, c.from, code) => r.err = "no balance object found"
               /\ HasRow(accts, c.from, code) /\ Balance(accts, c.from, code) < n =>
                      r.err = "overdrawn balance"
               /\ HasRow(accts, c.from, code) /\ Balance(accts, c.from, code) >= n =>
                      r.err = ""
        /\ (/\ ReachesBurnSupplyCheck(c)
            /\ n = 0
            /\ HasRow(accts, c.from, code)
            /\ Balance(accts, c.from, code) = 0) =>
               /\ r.err = ""
               /\ ~HasRow(r.accts, c.from, code)
               /\ r.stats = stats
               /\ \A k \in DOMAIN accts \ {<<c.from, code>>} :
                      k \in DOMAIN r.accts /\ r.accts[k] = accts[k]

\* an account has signed up while tokens are in supply, and from here a
\* burn of 0 deletes its row, burns above the supply are refused for an
\* account with a row and for one without, and a burn within the supply is
\* refused at the debit
BurnPrecedenceWitness ==
    /\ last.op = "signup"
    /\ "TOK" \in DOMAIN stats
    /\ stats["TOK"].supply.amount > 0
    /\ \E c \in BurnCalls :
           /\ c.from = last.from
           /\ c.quantity.amount = 0
           /\ Run(Begin, c).err = ""
           /\ ~HasRow(Run(Begin, c).accts, c.from, "TOK")
    /\ \E c \in BurnCalls :
           /\ HasRow(accts, c.from, "TOK")
           /\ Run(Begin, c).err = "quantity exceeds available supply"
    /\ \E c \in BurnCalls :
           /\ ~HasRow(accts, c.from, "TOK")
           /\ Run(Begin, c).err = "quantity exceeds available supply"
    /\ \E c \in BurnCalls :
           Run(Begin, c).err = "overdrawn balance"

===========================================================================
